---------------------------- MODULE Spec2Model ----------------------------
(***************************************************************************)
(* A model of CLgen's sqlite3 database utilities (src/clgen/dbutil.py):    *)
(* the store file, its three tables (ContentFiles, PreprocessedFiles,      *)
(* Meta), the Meta accessors, the change detector (is_modified /           *)
(* set_modified_status), the exporter (_dump_db), the maintenance and     *)
(* counting calls, and of the Model instances and their artifact cache     *)
(* that deeplearning/clgen/models/models_test.py exercises.                *)
(*                                                                         *)
(* Python values are sequences of one-character strings; the Python        *)
(* constants None, False, True and the exception classes are one-element   *)
(* sequences holding a longer token, so that no string equals them.        *)
(* A table is the sequence of its rows in rowid (insertion) order.         *)
(***************************************************************************)
EXTENDS Integers, Sequences, FiniteSets, TLC

VARIABLES
    fsdb,               \* what is at the store's path: "absent", "other" or "db"
    github,             \* the store was created with the GitHub tables
    scanByIndex,        \* the engine scans ContentFiles by its id index (else by rowid)
    ContentFiles,       \* rows [id, contents]
    PreprocessedFiles,  \* rows [id, contents, status]
    Meta,               \* rows [key, value]
    out,                \* what is at the export destination path
    ret,                \* the last call: its name, arguments and result
    lastSetMeta,        \* history: key -> value of the most recent set_meta, or None
    heldFresh,          \* history: is_modified returned a digest and ContentFiles is unchanged since
    quiet,              \* history: ... and the checksum entry was not written since either
    commit,             \* history: a just-returned digest was committed, and what changed since
    models,             \* the Model instances: name -> [config, hash, trained]
    cache,              \* the artifact cache: identity -> [META, checkpoints]
    txn                 \* the open connection's uncommitted Meta update, if any

vars == <<fsdb, github, scanByIndex, ContentFiles, PreprocessedFiles, Meta, out,
          ret, lastSetMeta, heldFresh, quiet, commit, models, cache,
          txn>>

-----------------------------------------------------------------------------
(* Python values *)

None == <<"None">>
False == <<"False">>
True == <<"True">>
EmptyStr == <<>>
UserError == <<"clgen.UserError">>
OperationalError == <<"sqlite3.OperationalError">>
IntegrityError == <<"sqlite3.IntegrityError">>
OSError == <<"OSError">>

Exceptions == {UserError, OperationalError, IntegrityError, OSError}

\* Python truthiness of a returned value (bool(None), bool(False), bool('') are False).
Truthy(v) == v \notin {None, False, EmptyStr}

Bool(b) == IF b THEN True ELSE False

-----------------------------------------------------------------------------
(* Bounds and input sets *)

MaxContentRows == 2
MaxPreprocessedRows == 2

MetaKeys == {"version", "preprocessed_checksum", "k"}
MetaValues == {EmptyStr, <<"2">>, <<"3">>}

NewLine == "\n"
ContentIds == {<<"a">>, <<"c">>, <<"a", "b">>, <<"b", "c">>}
ContentValues == {<<"x">>, <<"x", NewLine, "y">>}

-----------------------------------------------------------------------------
(* The Meta accessors *)

MetaRowsOf(M, key) == SelectSeq(M, LAMBDA r : r.key = key)

\* The schema's Meta(key PRIMARY KEY, value): INSERT OR REPLACE replaces on key.
MetaKeyIsUnique == TRUE

\* DELETE FROM Meta WHERE key=? without the DELETE: the row is only added.
set_meta_rows_no_delete(M, key, value) ==
    Append(M, [key |-> key, value |-> value])

\* DELETE FROM Meta WHERE key=?; INSERT INTO Meta (key, value) VALUES (?,?)
set_meta_rows(M, key, value) ==
    Append(SelectSeq(M, LAMBDA r : r.key # key), [key |-> key, value |-> value])

\* A lookup that raises on a missing key instead of returning ''.
get_meta_value_raises(M, key) ==
    IF MetaRowsOf(M, key) # <<>> THEN MetaRowsOf(M, key)[1].value ELSE OperationalError

\* SELECT value FROM Meta WHERE key=?; fetchone(); v[0] if v else ""
get_meta_value(M, key) ==
    IF MetaRowsOf(M, key) # <<>> THEN MetaRowsOf(M, key)[1].value ELSE EmptyStr

\* get_meta(path, "version") == version
version_meta_matches_value(M, version) ==
    Bool(get_meta_value(M, "version") = version)

NoHistory == [k \in MetaKeys |-> None]

\* No Commit yet.  `ids` is the set of ContentFiles ids at the last Commit.
FreshCommit == [on |-> FALSE, content |-> "none", meta |-> FALSE, ids |-> {}]

\* A write of the checksum entry by anything but a Commit of a fresh digest.
ChecksumTouched(key) ==
    /\ quiet' = IF key = "preprocessed_checksum" THEN FALSE ELSE quiet
    /\ commit' = IF key = "preprocessed_checksum" /\ commit.on
                 THEN [commit EXCEPT !.meta = TRUE] ELSE commit

\* A store created at a path that exists already: the exists check left out.
create_db_overwrites(gh) ==
    /\ fsdb' = "db"
    /\ github' = gh
    /\ ContentFiles' = <<>>
    /\ PreprocessedFiles' = <<>>
    /\ Meta' = <<>>
    /\ ret' = [op |-> "create_db", github |-> gh, result |-> None]
    /\ lastSetMeta' = NoHistory
    /\ heldFresh' = FALSE /\ quiet' = FALSE /\ commit' = FreshCommit
    /\ UNCHANGED <<scanByIndex, models, cache, txn, out>>

create_db(gh) ==
    IF fsdb # "absent"
    THEN /\ ret' = [op |-> "create_db", github |-> gh, result |-> UserError]
         /\ UNCHANGED <<fsdb, github, scanByIndex, models, cache, txn, ContentFiles, PreprocessedFiles,
                        Meta, out, lastSetMeta, heldFresh, quiet, commit>>
    ELSE /\ fsdb' = "db"
         /\ github' = gh
         /\ ContentFiles' = <<>>
         /\ PreprocessedFiles' = <<>>
         /\ Meta' = <<>>
         /\ ret' = [op |-> "create_db", github |-> gh, result |-> None]
         /\ UNCHANGED <<scanByIndex, models, cache, txn, out, lastSetMeta, heldFresh, quiet, commit>>

set_meta(key, value) ==
    /\ fsdb = "db"
    /\ Meta' = set_meta_rows(Meta, key, value)
    /\ ret' = [op |-> "set_meta", key |-> key, value |-> value,
               replaced |-> Len(MetaRowsOf(Meta, key)), result |-> None]
    /\ lastSetMeta' = [lastSetMeta EXCEPT ![key] = value]
    /\ ChecksumTouched(key)
    /\ UNCHANGED <<fsdb, github, scanByIndex, models, cache, txn, ContentFiles, PreprocessedFiles, out,
                   heldFresh>>

get_meta(key) ==
    /\ fsdb = "db"
    /\ ret' = [op |-> "get_meta", key |-> key, result |-> get_meta_value(Meta, key)]
    /\ UNCHANGED <<fsdb, github, scanByIndex, models, cache, txn, ContentFiles, PreprocessedFiles, Meta,
                   out, lastSetMeta, heldFresh, quiet, commit>>

set_version_meta(version) ==
    /\ fsdb = "db"
    /\ Meta' = set_meta_rows(Meta, "version", version)
    /\ ret' = [op |-> "set_version_meta", version |-> version,
               replaced |-> Len(MetaRowsOf(Meta, "version")), result |-> None]
    /\ lastSetMeta' = [lastSetMeta EXCEPT !["version"] = version]
    /\ UNCHANGED <<fsdb, github, scanByIndex, models, cache, txn, ContentFiles, PreprocessedFiles, out,
                   heldFresh, quiet, commit>>

version_meta_matches(version) ==
    /\ fsdb = "db"
    /\ ret' = [op |-> "version_meta_matches", version |-> version,
               result |-> version_meta_matches_value(Meta, version)]
    /\ UNCHANGED <<fsdb, github, scanByIndex, models, cache, txn, ContentFiles, PreprocessedFiles, Meta,
                   out, lastSetMeta, heldFresh, quiet, commit>>

-----------------------------------------------------------------------------
(* Text helpers and the aggregates *)

Alphabet == <<NewLine, " ", "-", ".", "/", ":", "a", "b", "c", "x", "y", "z">>

Code(ch) == CHOOSE i \in 1..Len(Alphabet) : Alphabet[i] = ch

\* s < t in the index's BINARY collation (bytewise, a proper prefix first).
RECURSIVE StrLess(_, _)
StrLess(s, t) ==
    IF t = <<>> THEN FALSE
    ELSE IF s = <<>> THEN TRUE
    ELSE IF Head(s) = Head(t) THEN StrLess(Tail(s), Tail(t))
    ELSE Code(Head(s)) < Code(Head(t))

RECURSIVE Concat(_)
Concat(ss) == IF ss = <<>> THEN <<>> ELSE Head(ss) \o Concat(Tail(ss))

RECURSIVE InsertById(_, _)
InsertById(row, rows) ==
    IF rows = <<>> THEN <<row>>
    ELSE IF StrLess(row.id, Head(rows).id) THEN <<row>> \o rows
    ELSE <<Head(rows)>> \o InsertById(row, Tail(rows))

RECURSIVE SortById(_)
SortById(rows) ==
    IF rows = <<>> THEN <<>> ELSE InsertById(Head(rows), SortById(Tail(rows)))

\* The order in which a full scan of a table with no ORDER BY visits the rows:
\* the id index (a covering index for SELECT ...(id)) or the rowid order.
ScanOrder(rows) == IF scanByIndex THEN SortById(rows) ELSE rows

\* hashlib.md5(bytes).hexdigest(), taken as collision-free: an injective tag.
MD5(bytes) == <<"md5:">> \o bytes

Ids(rows) == [i \in 1..Len(rows) |-> rows[i].id]
Contents(rows) == [i \in 1..Len(rows) |-> rows[i].contents]

\* md5sum_aggregator over the scanned values; an aggregate of a user class over
\* no rows never calls step and yields NULL (None).
md5sum_aggregator(values) ==
    IF values = <<>> THEN None ELSE MD5(Concat(values))

\* len(value.split('\n'))
RECURSIVE NewLines(_)
NewLines(s) ==
    IF s = <<>> THEN 0
    ELSE (IF Head(s) = NewLine THEN 1 ELSE 0) + NewLines(Tail(s))

LineCount(value) == NewLines(value) + 1

-----------------------------------------------------------------------------
(* The change detector *)

ChecksumKey == "preprocessed_checksum"

\* The checksum taken over the contents column instead of the id column.
content_checksum_of_contents(rows) == md5sum_aggregator(Contents(ScanOrder(rows)))

\* SELECT MD5SUM(id) FROM ContentFiles
content_checksum(rows) == md5sum_aggregator(Ids(ScanOrder(rows)))

\* result[0] if result else None, for the 'preprocessed_checksum' row
cached_checksum(M) ==
    IF MetaRowsOf(M, ChecksumKey) # <<>> THEN MetaRowsOf(M, ChecksumKey)[1].value
    ELSE None

\* return False if cached_checksum == checksum else checksum
is_modified_value(M, rows) ==
    IF cached_checksum(M) = content_checksum(rows) THEN False
    ELSE content_checksum(rows)

\* INSERT OR REPLACE INTO Meta VALUES (?,?) with the row left beside the old one.
insert_or_replace_meta_no_replace(M, key, value) ==
    Append(M, [key |-> key, value |-> value])

\* INSERT OR REPLACE INTO Meta VALUES (?,?)
insert_or_replace_meta(M, key, value) ==
    IF MetaKeyIsUnique
    THEN Append(SelectSeq(M, LAMBDA r : r.key # key), [key |-> key, value |-> value])
    ELSE Append(M, [key |-> key, value |-> value])

IsModifiedHistory(result) ==
    /\ heldFresh' = IF Truthy(result) THEN TRUE ELSE heldFresh
    /\ quiet' = IF Truthy(result) THEN TRUE ELSE quiet
    /\ UNCHANGED <<lastSetMeta, commit>>

\* An is_modified that records the checksum it computed.
is_modified_records_checksum ==
    /\ fsdb = "db"
    /\ ret' = [op |-> "is_modified", result |-> is_modified_value(Meta, ContentFiles)]
    /\ Meta' = IF content_checksum(ContentFiles) = None THEN Meta
               ELSE insert_or_replace_meta(Meta, ChecksumKey,
                                           content_checksum(ContentFiles))
    /\ IsModifiedHistory(is_modified_value(Meta, ContentFiles))
    /\ UNCHANGED <<fsdb, github, scanByIndex, models, cache, txn, ContentFiles, PreprocessedFiles, out>>

is_modified ==
    /\ fsdb = "db"
    /\ ret' = [op |-> "is_modified", result |-> is_modified_value(Meta, ContentFiles)]
    /\ IsModifiedHistory(is_modified_value(Meta, ContentFiles))
    /\ UNCHANGED <<fsdb, github, scanByIndex, models, cache, txn, ContentFiles, PreprocessedFiles, Meta,
                   out>>

set_modified_status(checksum) ==
    /\ fsdb = "db"
    /\ Meta' = insert_or_replace_meta(Meta, ChecksumKey, checksum)
    /\ ret' = [op |-> "set_modified_status", result |-> None]
    /\ commit' = IF heldFresh /\ checksum = content_checksum(ContentFiles)
                 THEN [on |-> TRUE, content |-> "none", meta |-> FALSE,
                       ids |-> {ContentFiles[i].id : i \in DOMAIN ContentFiles}]
                 ELSE IF commit.on THEN [commit EXCEPT !.meta = TRUE] ELSE commit
    /\ quiet' = FALSE
    /\ UNCHANGED <<fsdb, github, scanByIndex, models, cache, txn, ContentFiles, PreprocessedFiles, out,
                   lastSetMeta, heldFresh>>

\* remove_preprocessed without its second DELETE.
remove_preprocessed_keeps_checksum ==
    /\ fsdb = "db"
    /\ PreprocessedFiles' = <<>>
    /\ ret' = [op |-> "remove_preprocessed", result |-> None]
    /\ UNCHANGED <<fsdb, github, scanByIndex, models, cache, txn, ContentFiles, Meta,
                   out, lastSetMeta, heldFresh, quiet, commit>>

\* remove_preprocessed with its second DELETE taking every Meta row.
remove_preprocessed_clears_meta ==
    /\ fsdb = "db"
    /\ PreprocessedFiles' = <<>>
    /\ Meta' = <<>>
    /\ ret' = [op |-> "remove_preprocessed", result |-> None]
    /\ ChecksumTouched(ChecksumKey)
    /\ UNCHANGED <<fsdb, github, scanByIndex, models, cache, txn, ContentFiles, out,
                   lastSetMeta, heldFresh>>

\* remove_preprocessed: DELETE FROM PreprocessedFiles, then
\* DELETE FROM Meta WHERE key='preprocessed_checksum', then commit.
remove_preprocessed ==
    /\ fsdb = "db"
    /\ PreprocessedFiles' = <<>>
    /\ Meta' = SelectSeq(Meta, LAMBDA r : r.key # ChecksumKey)
    /\ ret' = [op |-> "remove_preprocessed", result |-> None]
    /\ ChecksumTouched(ChecksumKey)
    /\ UNCHANGED <<fsdb, github, scanByIndex, models, cache, txn, ContentFiles, out, lastSetMeta,
                   heldFresh>>

-----------------------------------------------------------------------------
(* The writers of ContentFiles: ingestion (sql_insert_dict) and the external *)
(* writers that alter or delete Content Records                              *)

\* The schema's ContentFiles(id PRIMARY KEY, contents) and
\* PreprocessedFiles(id PRIMARY KEY, contents, status).
IdIsPrimaryKey == TRUE

HasId(rows, id) == \E i \in 1..Len(rows) : rows[i].id = id

\* kind: "contents" (a row's contents rewritten in place) or "rows".
ContentChanged(kind) ==
    /\ heldFresh' = FALSE
    /\ quiet' = FALSE
    /\ commit' = IF commit.on
                 THEN [commit EXCEPT !.content =
                          IF kind = "rows" \/ @ = "rows" THEN "rows" ELSE "contents"]
                 ELSE FreshCommit
    /\ UNCHANGED lastSetMeta

\* INSERT [OR REPLACE] INTO ContentFiles(contents,id) VALUES(?,?)
sql_insert_dict_ContentFiles(id, contents, replace_existing) ==
    /\ fsdb = "db"
    /\ IF IdIsPrimaryKey /\ HasId(ContentFiles, id) /\ ~replace_existing
       THEN /\ ret' = [op |-> "sql_insert_dict", table |-> "ContentFiles",
                       result |-> IntegrityError]
            /\ UNCHANGED <<ContentFiles, lastSetMeta, heldFresh, quiet, commit>>
       ELSE /\ HasId(ContentFiles, id) \/ Len(ContentFiles) < MaxContentRows
            /\ ContentFiles' =
                  Append(IF IdIsPrimaryKey
                         THEN SelectSeq(ContentFiles, LAMBDA r : r.id # id)
                         ELSE ContentFiles,
                         [id |-> id, contents |-> contents])
            /\ ret' = [op |-> "sql_insert_dict", table |-> "ContentFiles",
                       result |-> None]
            /\ ContentChanged("rows")
    /\ UNCHANGED <<fsdb, github, scanByIndex, models, cache, txn, PreprocessedFiles, Meta, out>>

\* UPDATE ContentFiles SET contents=? WHERE id=?  (an external writer)
UpdateContents(id, contents) ==
    /\ fsdb = "db"
    /\ \E i \in 1..Len(ContentFiles) :
          /\ ContentFiles[i].id = id
          /\ ContentFiles[i].contents # contents
          /\ ContentFiles' = [ContentFiles EXCEPT ![i].contents = contents]
    /\ ret' = [op |-> "update_contents", result |-> None]
    /\ ContentChanged("contents")
    /\ UNCHANGED <<fsdb, github, scanByIndex, models, cache, txn, PreprocessedFiles, Meta, out>>

\* DELETE FROM ContentFiles WHERE id=?  (an external writer)
DeleteContent(id) ==
    /\ fsdb = "db"
    /\ HasId(ContentFiles, id)
    /\ ContentFiles' = SelectSeq(ContentFiles, LAMBDA r : r.id # id)
    /\ ret' = [op |-> "delete_content", result |-> None]
    /\ ContentChanged("rows")
    /\ UNCHANGED <<fsdb, github, scanByIndex, models, cache, txn, PreprocessedFiles, Meta, out>>

-----------------------------------------------------------------------------
(* The exporter *)

\* re.sub('[/:\. ]+', '-', id): every run of unsafe characters becomes one '-'.
UnsafeChars == {"/", ":", ".", " "}

RECURSIVE DropUnsafe(_)
DropUnsafe(s) ==
    IF s # <<>> /\ Head(s) \in UnsafeChars THEN DropUnsafe(Tail(s)) ELSE s

RECURSIVE kid_to_path(_)
kid_to_path(id) ==
    IF id = <<>> THEN <<>>
    ELSE IF Head(id) \in UnsafeChars
         THEN <<"-">> \o kid_to_path(DropUnsafe(Tail(id)))
         ELSE <<Head(id)>> \o kid_to_path(Tail(id))

\* The rows the query selects, before ordering, in scan order:
\* every ContentFiles row, or the PreprocessedFiles rows WHERE status=<status>.
dump_selected(input_samples, status) ==
    IF input_samples THEN [i \in 1..Len(ContentFiles) |->
                              [id |-> ContentFiles[i].id,
                               contents |-> ContentFiles[i].contents]]
    ELSE LET sel == SelectSeq(PreprocessedFiles, LAMBDA r : r.status = status)
         IN  [i \in 1..Len(sel) |-> [id |-> sel[i].id, contents |-> sel[i].contents]]

\* ORDER BY LC(contents): LC is registered with create_aggregate, and sqlite
\* rejects an aggregate in the ORDER BY of a SELECT whose result columns hold
\* none ("misuse of aggregate: LC()") when the statement is prepared.
\* ORDER BY Repositories.stars is an ordinary column.
dump_query_fails(gh) == ~gh

\* The stars a GitHub store's Repositories table gives a row through the two
\* LEFT JOINs (0: no repository row, NULL sorts first).
StarValues == {0, 1}

\* Every order of `rows` that ORDER BY <key> ASC (reverse) or DESC may return:
\* sorted on the key, rows of equal key in any order.
dump_ordered(rows, key, reverse) ==
    LET n == Len(rows)
        perms == {p \in [1..n -> 1..n] : \A i, j \in 1..n : i # j => p[i] # p[j]}
        sorted(p) == \A i, j \in 1..n :
                        i < j => IF reverse THEN key[p[i]] <= key[p[j]]
                                 ELSE key[p[i]] >= key[p[j]]
    IN  {[i \in 1..n |-> rows[p[i]]] : p \in {q \in perms : sorted(q)}}

\* One record of the single-file output with the EOF token written whatever
\* the flag.
dump_block_always_eof(row, fileid, eof) ==
    (IF fileid THEN <<"/* ID: ">> \o row.id \o <<" */", NewLine, NewLine>> ELSE <<>>)
    \o row.contents
    \o <<NewLine, "/* EOF */", NewLine, NewLine>>

\* One record of the single-file output.
dump_block(row, fileid, eof) ==
    (IF fileid THEN <<"/* ID: ">> \o row.id \o <<" */", NewLine, NewLine>> ELSE <<>>)
    \o row.contents
    \o (IF eof THEN <<NewLine, "/* EOF */", NewLine, NewLine>>
        ELSE <<NewLine, NewLine>>)

RECURSIVE dump_bytes(_, _, _)
dump_bytes(rows, fileid, eof) ==
    IF rows = <<>> THEN <<>>
    ELSE dump_block(Head(rows), fileid, eof) \o dump_bytes(Tail(rows), fileid, eof)

\* open(path, 'w').write(contents) for each row, in order, into `files`.
RECURSIVE dump_files(_, _)
dump_files(files, rows) ==
    IF rows = <<>> THEN files
    ELSE LET name == kid_to_path(Head(rows).id) \o <<".cl">>
         IN  dump_files({f \in files : f.name # name}
                          \cup {[name |-> name, contents |-> Head(rows).contents]},
                        Tail(rows))

DumpRet(fileid, reverse, input_samples, status, eof, dir, result, rows) ==
    [op |-> "dump_db", fileid |-> fileid, reverse |-> reverse,
     input_samples |-> input_samples, status |-> status, eof |-> eof, dir |-> dir,
     result |-> result, rows |-> rows]

\* dump_db: _dump_db with gh = is_github(db).  The query runs first; then, in
\* directory mode, a destination that exists and lists anything (fs.ls of a
\* plain file lists the file itself) raises UserError, an absent one is made,
\* and each row is written to <kid_to_path(id)>.cl, a later row of the same
\* name over an earlier one; in single-file mode open(out_path, 'wb') fails on
\* a directory and truncates a file.
dump_db(fileid, reverse, input_samples, status, eof, dir) ==
    /\ fsdb = "db"
    /\ LET selected == dump_selected(input_samples, status)
           Done(result, rows) ==
               ret' = DumpRet(fileid, reverse, input_samples, status, eof, dir,
                              result, rows)
       IN  IF dump_query_fails(github)
           THEN Done(OperationalError, <<>>) /\ out' = out
           ELSE \E rows \in UNION {dump_ordered(selected, stars, reverse) :
                                      stars \in [1..Len(selected) -> StarValues]} :
                   IF dir
                   THEN IF out.kind = "file" \/ (out.kind = "dir" /\ out.files # {})
                        THEN Done(UserError, <<>>) /\ out' = out
                        ELSE /\ Done(None, rows)
                             /\ out' = [kind |-> "dir", bytes |-> <<>>,
                                        files |-> dump_files({}, rows)]
                   ELSE IF out.kind = "dir"
                        THEN Done(OSError, <<>>) /\ out' = out
                        ELSE /\ Done(None, rows)
                             /\ out' = [kind |-> "file",
                                        bytes |-> dump_bytes(rows, fileid, eof),
                                        files |-> {}]
    /\ UNCHANGED <<fsdb, github, scanByIndex, models, cache, txn, ContentFiles, PreprocessedFiles, Meta,
                   lastSetMeta, heldFresh, quiet, commit>>

-----------------------------------------------------------------------------
(* Maintenance of PreprocessedFiles and the counting queries                 *)

\* The literal '[DELETED]' of the UPDATE statement.
Tombstone == <<"[", "D", "E", "L", "E", "T", "E", "D", "]">>

\* UPDATE PreprocessedFiles SET contents='[DELETED]' WHERE status=1
\* (the statement without its second disjunct).
remove_bad_rows_status_1(P) ==
    [i \in DOMAIN P |-> IF P[i].status = 1
                        THEN [P[i] EXCEPT !.contents = Tombstone] ELSE P[i]]

\* UPDATE PreprocessedFiles SET contents='[DELETED]' WHERE status=1 OR status=2
remove_bad_rows(P) ==
    [i \in DOMAIN P |-> IF P[i].status = 1 \/ P[i].status = 2
                        THEN [P[i] EXCEPT !.contents = Tombstone] ELSE P[i]]

\* remove_bad_preprocessed: the UPDATE, commit, VACUUM (which rewrites the file
\* and changes no row), and the sizes logged before and after.
remove_bad_preprocessed ==
    /\ fsdb = "db"
    /\ PreprocessedFiles' = remove_bad_rows(PreprocessedFiles)
    /\ ret' = [op |-> "remove_bad_preprocessed", result |-> None]
    /\ UNCHANGED <<fsdb, github, scanByIndex, models, cache, txn, ContentFiles, Meta, out,
                   lastSetMeta, heldFresh, quiet, commit>>

\* value.split('\n'): the segments between the newlines.
RECURSIVE split(_, _)
split(value, segment) ==
    IF value = <<>> THEN <<segment>>
    ELSE IF Head(value) = NewLine THEN <<segment>> \o split(Tail(value), <<>>)
    ELSE split(Tail(value), Append(segment, Head(value)))

\* linecount_aggregator with step adding the number of newlines only.
RECURSIVE linecount_aggregator_newlines(_, _)
linecount_aggregator_newlines(count, values) ==
    IF values = <<>> THEN count
    ELSE linecount_aggregator_newlines(count + Len(split(Head(values), <<>>)) - 1,
                                       Tail(values))

\* linecount_aggregator: count starts at 0, step adds len(value.split('\n')),
\* finalize returns count.
RECURSIVE linecount_aggregator(_, _)
linecount_aggregator(count, values) ==
    IF values = <<>> THEN count
    ELSE linecount_aggregator(count + Len(split(Head(values), <<>>)), Tail(values))

\* charcount_aggregator: count starts at 0, step adds len(value).
RECURSIVE charcount_aggregator(_, _)
charcount_aggregator(count, values) ==
    IF values = <<>> THEN count
    ELSE charcount_aggregator(count + Len(Head(values)), Tail(values))

\* The condition strings the callers pass: none, or num_good_kernels' filter.
NoCondition == ""
GoodCondition == "WHERE status=0"

\* The rows SELECT ... FROM <table> <condition> scans.
ScannedRows(table, condition) ==
    LET rows == IF table = "ContentFiles" THEN ContentFiles ELSE PreprocessedFiles
    IN  IF condition = GoodCondition
        THEN SelectSeq(rows, LAMBDA r : r.status = 0) ELSE rows

\* lc: SELECT LC(Contents) FROM <table> <condition>, then `fetchone()[0] or 0`:
\* over no rows the aggregate is NULL and `None or 0` is 0.
lc(table, condition) ==
    /\ fsdb = "db"
    /\ LET values == Contents(ScannedRows(table, condition))
       IN  ret' = [op |-> "lc", table |-> table, condition |-> condition,
                   result |-> IF values = <<>> THEN 0
                              ELSE linecount_aggregator(0, values)]
    /\ UNCHANGED <<fsdb, github, scanByIndex, models, cache, txn, ContentFiles,
                   PreprocessedFiles, Meta, out, lastSetMeta, heldFresh, quiet, commit>>

\* cc: SELECT CC(Contents) FROM <table> <condition>, then `fetchone()[0] or 0`.
cc(table, condition) ==
    /\ fsdb = "db"
    /\ LET values == Contents(ScannedRows(table, condition))
       IN  ret' = [op |-> "cc", table |-> table, condition |-> condition,
                   result |-> IF values = <<>> THEN 0
                              ELSE charcount_aggregator(0, values)]
    /\ UNCHANGED <<fsdb, github, scanByIndex, models, cache, txn, ContentFiles,
                   PreprocessedFiles, Meta, out, lastSetMeta, heldFresh, quiet, commit>>

-----------------------------------------------------------------------------
(* Model instances and the artifact cache (deeplearning/clgen/models): the   *)
(* configuration's identity, the cache entry of an identity, and Train.      *)
(* models.py is exercised by models_test.py; what it does is taken from the  *)
(* specification's sections 4.1 and 4.2.                                     *)

dbvars == <<fsdb, github, scanByIndex, ContentFiles, PreprocessedFiles, Meta, out,
            lastSetMeta, heldFresh, quiet, commit, txn>>

\* The configurations of the tests: architecture.neuron_type,
\* architecture.num_layers, corpus.sequence_length, training.num_epochs.
NeuronTypes == {"GRU", "RNN"}
LayerCounts == {1, 2}
SequenceLengths == {5, 10}
EpochCounts == {1, 2}
Configs == [neuron_type : NeuronTypes, num_layers : LayerCounts,
            sequence_length : SequenceLengths, num_epochs : EpochCounts]

\* The identity-relevant fields with the epoch count among them.
IdentityFieldsWithEpochs ==
    <<"neuron_type", "num_epochs", "num_layers", "sequence_length">>

\* The identity-relevant fields without the layer count.
IdentityFieldsWithoutLayers == <<"neuron_type", "sequence_length">>

\* The identity-relevant fields, sorted by name; the epoch count is not one.
IdentityFields == <<"neuron_type", "num_layers", "sequence_length">>

\* The canonical serialisation: the identity-relevant fields, in name order,
\* each with its value.
Serialize(config) ==
    [i \in DOMAIN IdentityFields |-> <<IdentityFields[i], config[IdentityFields[i]]>>]

\* The 160-bit digest, collision-free: the bytes under a tag.
SHA1(bytes) == <<"sha1:", bytes>>

\* Model.hash
Identity(config) == SHA1(Serialize(config))

\* Model.__eq__ / __ne__: two models are equal when their identities are.
ModelEq(m1, m2) == m1.hash = m2.hash

\* The checkpoints after a training run that starts every time from nothing
\* and keeps the epochs of this run only.
train_checkpoints_restart(checkpoints, num_epochs) == 1..num_epochs

\* The checkpoints after a training run to num_epochs: an epoch whose
\* checkpoint is there is not run again, the others are added.
train_checkpoints(checkpoints, num_epochs) == checkpoints \cup (1..num_epochs)

\* Model.is_trained: the checkpoint of the configuration's last epoch is there.
is_trained(C, m) == m.config.num_epochs \in C[m.hash].checkpoints

\* Model(config): the identity is computed and its cache entry opened; the
\* first open makes the entry and writes META, a later one changes nothing.
\* `name` is the test's variable the instance is bound to, bound once.
Model(name, config) ==
    /\ name \notin DOMAIN models
    /\ LET h == Identity(config)
       IN  /\ cache' = IF h \in DOMAIN cache THEN cache
                       ELSE [x \in DOMAIN cache \cup {h} |->
                                IF x = h THEN [META |-> config, checkpoints |-> {}]
                                ELSE cache[x]]
           /\ models' = [n \in DOMAIN models \cup {name} |->
                            IF n = name
                            THEN [config |-> config, hash |-> h, trained |-> FALSE]
                            ELSE models[n]]
           /\ ret' = [op |-> "Model", name |-> name, result |-> h]
    /\ UNCHANGED dbvars

\* Model.Train(): the producer runs in the instance's cache entry; `trained`
\* records that Train() has completed on the instance.
Train(name) ==
    /\ name \in DOMAIN models
    /\ LET m == models[name]
       IN  cache' = [cache EXCEPT ![m.hash].checkpoints =
                        train_checkpoints(@, m.config.num_epochs)]
    /\ models' = [models EXCEPT ![name].trained = TRUE]
    /\ ret' = [op |-> "Train", name |-> name, result |-> None]
    /\ UNCHANGED dbvars

-----------------------------------------------------------------------------
(* The Meta writers statement by statement.  sqlite3.connect(path) leaves    *)
(* the connection in the module's default transaction mode: the first        *)
(* DELETE / INSERT / REPLACE opens a transaction, whose changes only the     *)
(* connection sees until db.commit() writes them to the store file at once;  *)
(* a connection dropped or a process stopped before that leaves the file as  *)
(* it was committed last.  `Meta` is the committed table, `txn.rows` the     *)
(* table as the open connection sees it.                                     *)

\* A value sqlite3 cannot bind as a parameter (a list, say), and the error
\* c.execute raises for it.
Unbindable == <<"[]">>
BindError == <<"sqlite3.ProgrammingError">>

\* set_meta up to its DELETE, on a connection that commits every statement
\* as it is executed.
set_meta_delete_autocommit(key, value) ==
    /\ fsdb = "db"
    /\ txn.pc = "idle"
    /\ txn' = [pc |-> "deleted", op |-> "set_meta", key |-> key, value |-> value,
               rows |-> SelectSeq(Meta, LAMBDA r : r.key # key)]
    /\ Meta' = SelectSeq(Meta, LAMBDA r : r.key # key)
    /\ UNCHANGED <<fsdb, github, scanByIndex, models, cache, ContentFiles,
                   PreprocessedFiles, out, ret, lastSetMeta, heldFresh, quiet, commit>>

\* set_meta up to its DELETE: connect, cursor, DELETE FROM Meta WHERE key=?
set_meta_delete(key, value) ==
    /\ fsdb = "db"
    /\ txn.pc = "idle"
    /\ txn' = [pc |-> "deleted", op |-> "set_meta", key |-> key, value |-> value,
               rows |-> SelectSeq(Meta, LAMBDA r : r.key # key)]
    /\ UNCHANGED <<fsdb, github, scanByIndex, models, cache, ContentFiles,
                   PreprocessedFiles, Meta, out, ret, lastSetMeta, heldFresh, quiet,
                   commit>>

\* set_meta's INSERT INTO Meta (key, value) VALUES (?,?).  When the value
\* cannot be bound, execute raises, set_meta is left without its commit and
\* the connection goes with it.
set_meta_insert ==
    /\ txn.pc = "deleted"
    /\ IF txn.value = Unbindable
       THEN /\ txn' = [pc |-> "idle", op |-> "", key |-> "", value |-> EmptyStr,
                       rows |-> <<>>]
            /\ ret' = [op |-> "set_meta", key |-> txn.key, value |-> txn.value,
                       replaced |-> 0, result |-> BindError]
       ELSE /\ txn' = [txn EXCEPT !.pc = "inserted",
                                  !.rows = Append(@, [key |-> txn.key,
                                                      value |-> txn.value])]
            /\ ret' = ret
    /\ UNCHANGED <<fsdb, github, scanByIndex, models, cache, ContentFiles,
                   PreprocessedFiles, Meta, out, lastSetMeta, heldFresh, quiet, commit>>

\* set_modified_status up to its one statement:
\* INSERT OR REPLACE INTO Meta VALUES (?,?)
set_modified_status_replace(checksum) ==
    /\ fsdb = "db"
    /\ txn.pc = "idle"
    /\ txn' = [pc |-> "inserted", op |-> "set_modified_status", key |-> ChecksumKey,
               value |-> checksum,
               rows |-> insert_or_replace_meta(Meta, ChecksumKey, checksum)]
    /\ UNCHANGED <<fsdb, github, scanByIndex, models, cache, ContentFiles,
                   PreprocessedFiles, Meta, out, ret, lastSetMeta, heldFresh, quiet,
                   commit>>

\* db.commit() of either writer: what the connection sees becomes the
\* committed table.
commit_update ==
    /\ txn.pc = "inserted"
    /\ Meta' = txn.rows
    /\ txn' = [pc |-> "idle", op |-> "", key |-> "", value |-> EmptyStr, rows |-> <<>>]
    /\ ret' = IF txn.op = "set_meta"
              THEN [op |-> "set_meta", key |-> txn.key, value |-> txn.value,
                    replaced |-> Len(MetaRowsOf(Meta, txn.key)), result |-> None]
              ELSE [op |-> "set_modified_status", result |-> None]
    /\ lastSetMeta' = IF txn.op = "set_meta"
                      THEN [lastSetMeta EXCEPT ![txn.key] = txn.value]
                      ELSE lastSetMeta
    /\ ChecksumTouched(txn.key)
    /\ UNCHANGED <<fsdb, github, scanByIndex, models, cache, ContentFiles,
                   PreprocessedFiles, out, heldFresh>>

\* The process stops with the update open: the open transaction is rolled
\* back (by the connection's close, or from the journal when the file is
\* opened next).
stop ==
    /\ txn.pc # "idle"
    /\ txn' = [pc |-> "idle", op |-> "", key |-> "", value |-> EmptyStr, rows |-> <<>>]
    /\ ret' = [op |-> "stopped", of |-> txn.op, key |-> txn.key, value |-> txn.value,
               at |-> txn.pc, result |-> None]
    /\ UNCHANGED <<fsdb, github, scanByIndex, models, cache, ContentFiles,
                   PreprocessedFiles, Meta, out, lastSetMeta, heldFresh, quiet, commit>>

-----------------------------------------------------------------------------
(* Specifications *)

NoTxn == [pc |-> "idle", op |-> "", key |-> "", value |-> EmptyStr, rows |-> <<>>]
NoModels == [name \in {} |-> {}]
NoCache == [hash \in {} |-> {}]
NoOut == [kind |-> "absent", bytes |-> <<>>, files |-> {}]

Init ==
    /\ fsdb \in {"absent", "other"}
    /\ github = FALSE
    /\ scanByIndex \in BOOLEAN
    /\ ContentFiles = <<>>
    /\ PreprocessedFiles = <<>>
    /\ Meta = <<>>
    /\ out = NoOut
    /\ ret = [op |-> "none", result |-> None]
    /\ lastSetMeta = NoHistory
    /\ heldFresh = FALSE
    /\ quiet = FALSE
    /\ commit = FreshCommit
    /\ models = NoModels
    /\ cache = NoCache
    /\ txn = NoTxn

NextMeta ==
    \/ \E gh \in BOOLEAN : create_db(gh)
    \/ \E key \in MetaKeys, value \in MetaValues : set_meta(key, value)
    \/ \E key \in MetaKeys : get_meta(key)
    \/ \E version \in MetaValues : set_version_meta(version)
    \/ \E version \in MetaValues : version_meta_matches(version)

SpecMeta == Init /\ [][NextMeta]_vars

StaleDigest == MD5(<<"z">>)

\* The digests a caller passes to set_modified_status: the one is_modified
\* computes for the present ContentFiles, or one of some other content.
CallerDigests == ({content_checksum(ContentFiles)} \ {None}) \cup {StaleDigest}

ChangeIds == {<<"a">>, <<"c">>, <<"a", "b">>}
ChangeValues == {<<"x">>}

NextChange ==
    \/ create_db(FALSE)
    \/ \E id \in ChangeIds, contents \in ChangeValues, replace \in BOOLEAN :
          sql_insert_dict_ContentFiles(id, contents, replace)
    \/ \E id \in ChangeIds : DeleteContent(id)
    \/ is_modified
    \/ remove_preprocessed
    \/ \E checksum \in CallerDigests : set_modified_status(checksum)
    \/ set_meta(ChecksumKey, <<"2">>)

SpecChange == Init /\ [][NextChange]_vars

AlterIds == {<<"a">>, <<"a", "b">>, <<"c">>}

NextAlter ==
    \/ create_db(FALSE)
    \/ \E id \in AlterIds, contents \in ContentValues, replace \in BOOLEAN :
          sql_insert_dict_ContentFiles(id, contents, replace)
    \/ \E id \in AlterIds, contents \in ContentValues : UpdateContents(id, contents)
    \/ is_modified
    \/ \E checksum \in CallerDigests : set_modified_status(checksum)

SpecAlter == Init /\ [][NextAlter]_vars

\* Ingestion and removal of Content Records over all of ContentIds, whose
\* members concatenate to the same bytes in two ways ('ab','c' and 'a','bc'),
\* with the change detector's two calls.
NextIds ==
    \/ create_db(FALSE)
    \/ \E id \in ContentIds, contents \in ChangeValues, replace \in BOOLEAN :
          sql_insert_dict_ContentFiles(id, contents, replace)
    \/ \E id \in ContentIds : DeleteContent(id)
    \/ is_modified
    \/ \E checksum \in CallerDigests : set_modified_status(checksum)

SpecIds == Init /\ [][NextIds]_vars

-----------------------------------------------------------------------------
(* The exporter's specification: a store that ingestion and preprocessing    *)
(* have filled, and the exports of it                                        *)

ExportIds == {<<"a", "/", "b">>, <<"a", ":", "b">>}
TwoLines == <<"x", NewLine, "y">>
FiveLines == <<"x", NewLine, "x", NewLine, "x", NewLine, "x", NewLine, "y">>
ExportValues == {TwoLines, FiveLines}
StatusValues == {0, 1}

\* The tables of at most n rows with distinct ids.
TablesOf(rowset, n) ==
    UNION {{t \in [1..k -> rowset] : \A i, j \in 1..k : i # j => t[i].id # t[j].id}
           : k \in 0..n}

ForeignFile == [name |-> <<"o">>, contents |-> <<"x">>]

InitExport ==
    /\ fsdb = "db"
    /\ github \in BOOLEAN
    /\ scanByIndex = TRUE
    /\ ContentFiles \in TablesOf([id : {<<"c">>, <<"a", "/", "b">>},
                                  contents : {TwoLines}], MaxContentRows)
    /\ PreprocessedFiles \in TablesOf([id : ExportIds, contents : ExportValues,
                                       status : StatusValues], MaxPreprocessedRows)
    /\ Meta = <<>>
    /\ out \in {NoOut,
                [kind |-> "dir", bytes |-> <<>>, files |-> {}],
                [kind |-> "dir", bytes |-> <<>>, files |-> {ForeignFile}]}
    /\ ret = [op |-> "none", result |-> None]
    /\ lastSetMeta = NoHistory
    /\ heldFresh = FALSE
    /\ quiet = FALSE
    /\ commit = FreshCommit
    /\ models = NoModels
    /\ cache = NoCache
    /\ txn = NoTxn

\* status is read only for PreprocessedFiles, fileid and eof only in
\* single-file mode: the calls that differ in an unread argument are left out.
NextExport ==
    \E reverse, input_samples, dir \in BOOLEAN :
    \E status \in IF input_samples THEN {0} ELSE StatusValues :
    \E fileid, eof \in IF dir THEN {FALSE} ELSE BOOLEAN :
        dump_db(fileid, reverse, input_samples, status, eof, dir)

SpecExport == InitExport /\ [][NextExport]_vars

-----------------------------------------------------------------------------
(* The maintenance specification: a store that ingestion and preprocessing   *)
(* have filled and stamped, and the maintenance and counting calls on it     *)

MaintIds == {<<"a">>, <<"c">>}
MaintStatus == {0, 1, 2, 3}

\* The Meta tables: any of the three keys, in rowid order of the keys chosen.
MaintMeta ==
    LET all == <<[key |-> "version", value |-> <<"2">>],
                 [key |-> ChecksumKey, value |-> StaleDigest],
                 [key |-> "k", value |-> <<"3">>]>>
    IN  {SelectSeq(all, LAMBDA r : r.key \in keys) : keys \in SUBSET MetaKeys}

InitMaint ==
    /\ fsdb = "db"
    /\ github = FALSE
    /\ scanByIndex = TRUE
    /\ ContentFiles \in TablesOf([id : {<<"a">>}, contents : ContentValues],
                                 MaxContentRows)
    /\ PreprocessedFiles \in TablesOf([id : MaintIds, contents : ContentValues,
                                       status : MaintStatus], MaxPreprocessedRows)
    /\ Meta \in MaintMeta
    /\ out = NoOut
    /\ ret = [op |-> "none", result |-> None]
    /\ lastSetMeta = NoHistory
    /\ heldFresh = FALSE
    /\ quiet = FALSE
    /\ commit = FreshCommit
    /\ models = NoModels
    /\ cache = NoCache
    /\ txn = NoTxn

NextMaint ==
    \/ remove_bad_preprocessed
    \/ remove_preprocessed
    \/ \E table \in {"ContentFiles", "PreprocessedFiles"} :
       \E condition \in IF table = "ContentFiles" THEN {NoCondition}
                        ELSE {NoCondition, GoodCondition} :
           \/ lc(table, condition)
           \/ cc(table, condition)

SpecMaint == InitMaint /\ [][NextMaint]_vars

-----------------------------------------------------------------------------
(* The models specification: two instances made and trained over one cache   *)

ModelNames == {"m1", "m2"}

InitModel ==
    /\ fsdb = "absent"
    /\ github = FALSE
    /\ scanByIndex = TRUE
    /\ ContentFiles = <<>>
    /\ PreprocessedFiles = <<>>
    /\ Meta = <<>>
    /\ out = NoOut
    /\ ret = [op |-> "none", result |-> None]
    /\ lastSetMeta = NoHistory
    /\ heldFresh = FALSE
    /\ quiet = FALSE
    /\ commit = FreshCommit
    /\ models = NoModels
    /\ cache = NoCache
    /\ txn = NoTxn

NextModel ==
    \/ \E name \in ModelNames, config \in Configs : Model(name, config)
    \/ \E name \in ModelNames : Train(name)

SpecModel == InitModel /\ [][NextModel]_vars

-----------------------------------------------------------------------------
(* The interrupted-update specification: a stamped store, the two Meta       *)
(* writers run statement by statement, and the process stopping in between   *)

InitCrash ==
    /\ fsdb = "db"
    /\ github = FALSE
    /\ scanByIndex = TRUE
    /\ ContentFiles = <<>>
    /\ PreprocessedFiles = <<>>
    /\ Meta \in MaintMeta
    /\ out = NoOut
    /\ ret = [op |-> "none", result |-> None]
    /\ lastSetMeta = NoHistory
    /\ heldFresh = FALSE
    /\ quiet = FALSE
    /\ commit = FreshCommit
    /\ models = NoModels
    /\ cache = NoCache
    /\ txn = NoTxn

NextCrash ==
    \/ \E key \in {"version", ChecksumKey}, value \in {<<"3">>, Unbindable} :
          set_meta_delete(key, value)
    \/ set_meta_insert
    \/ \E checksum \in {MD5(<<"a">>)} : set_modified_status_replace(checksum)
    \/ commit_update
    \/ stop

SpecCrash == InitCrash /\ [][NextCrash]_vars

-----------------------------------------------------------------------------
(* Claims about the Meta accessors and create_db, under SpecMeta *)

\* C1: after any sequence of set_meta calls the Meta table holds at most one
\* row per key, and the row of a key that was set carries the value of the
\* most recent set_meta for that key.
C1_OneRowPerKeyLatestValue ==
    \A key \in MetaKeys :
        /\ Len(MetaRowsOf(Meta, key)) <= 1
        /\ lastSetMeta[key] # None =>
              MetaRowsOf(Meta, key) = <<[key |-> key, value |-> lastSetMeta[key]]>>

\* set_meta("version", "3") has replaced an earlier row of the key.
C1_Witness ==
    /\ ret.op = "set_meta" /\ ret.key = "version" /\ ret.value = <<"3">>
    /\ ret.replaced = 1
    /\ MetaRowsOf(Meta, "version") = <<[key |-> "version", value |-> <<"3">>]>>
    /\ Len(Meta) = 3

\* C6, as claimed: version_meta_matches returns False for every expected value
\* while no version was ever stamped, and after a stamp of v it returns True
\* exactly for expected = v.
C6_AsClaimed ==
    ret.op = "version_meta_matches" =>
        ret.result = Bool(/\ lastSetMeta["version"] # None
                          /\ lastSetMeta["version"] = ret.version)

\* C7: get_meta returns the empty string, and no exception, when no row has the
\* key, otherwise the value of the last set_meta for the key, and it leaves the
\* Meta table as it was.
C7_GetMetaReadsLatestOrEmpty ==
    [][ret'.op = "get_meta" =>
          /\ Meta' = Meta
          /\ ret'.result \notin Exceptions
          /\ ret'.result = IF MetaRowsOf(Meta, ret'.key) = <<>> THEN EmptyStr
                           ELSE lastSetMeta[ret'.key]]_vars

\* get_meta of a key with no row, in a store that has other rows, returned ''.
C7_Witness ==
    /\ ret.op = "get_meta"
    /\ MetaRowsOf(Meta, ret.key) = <<>>
    /\ ret.result = EmptyStr
    /\ Len(Meta) = 2

\* C8: create_db on a path where something exists fails with a user error and
\* leaves what is there untouched; it creates an empty store only when nothing
\* exists at the path.
C8_CreateDbNeverOverwrites ==
    [][ret'.op = "create_db" =>
          IF fsdb # "absent"
          THEN /\ ret'.result = UserError
               /\ UNCHANGED <<fsdb, github, ContentFiles, PreprocessedFiles, Meta>>
          ELSE /\ ret'.result = None
               /\ fsdb' = "db"
               /\ ContentFiles' = <<>> /\ PreprocessedFiles' = <<>> /\ Meta' = <<>>]_vars

\* create_db failed on a store that holds Meta rows, which are still there.
C8_Witness ==
    /\ ret.op = "create_db" /\ ret.result = UserError
    /\ fsdb = "db"
    /\ Len(Meta) = 3

-----------------------------------------------------------------------------
(* Claims about the change detector, under SpecChange and SpecAlter *)

\* C2, as claimed: once a digest returned by is_modified was committed with
\* ContentFiles unchanged in between, every following is_modified returns False
\* until ContentFiles is changed.
C2_AsClaimed ==
    (commit.on /\ commit.content = "none" /\ ret.op = "is_modified") =>
        ret.result = False

\* C2, amended: ... every following is_modified returns False until
\* ContentFiles is changed or the 'preprocessed_checksum' entry is written
\* again or removed.
C2_UnchangedAfterCommit ==
    (commit.on /\ commit.content = "none" /\ ~commit.meta /\ ret.op = "is_modified") =>
        ret.result = False

\* is_modified returned False after the Commit of a digest of two records.
C2_Witness ==
    /\ commit.on /\ commit.content = "none" /\ ~commit.meta
    /\ ret.op = "is_modified" /\ ret.result = False
    /\ Len(ContentFiles) = 2

\* C3, as claimed: with no 'preprocessed_checksum' entry in Meta, is_modified
\* returns a truthy value, whatever ContentFiles holds (the empty table too).
C3_AsClaimed ==
    (ret.op = "is_modified" /\ MetaRowsOf(Meta, ChecksumKey) = <<>>) =>
        Truthy(ret.result)

C5_IsModifiedReadOnly ==
    [][ret'.op = "is_modified" =>
          /\ Meta' = Meta
          /\ quiet => Truthy(ret'.result)]_vars

\* is_modified reported a change while an older, different checksum is recorded.
C5_Witness ==
    /\ ret.op = "is_modified" /\ Truthy(ret.result) /\ quiet
    /\ cached_checksum(Meta) \notin {None, ret.result}
    /\ Len(ContentFiles) = 2

-----------------------------------------------------------------------------
(* Claims about the exporter, under SpecExport *)

Range(f) == {f[i] : i \in DOMAIN f}

\* `emitted` holds every row of `selected` exactly once and no other row
\* (the rows of a table differ in their ids).
EmitsExactly(emitted, selected) ==
    /\ Len(emitted) = Len(selected)
    /\ Range(emitted) = Range(selected)

\* C9, as claimed: a single-file export in ascending order on the line-count
\* key writes the selected records, each one's line count no greater than that
\* of any record written after it.
C9_AsClaimed ==
    (/\ ret.op = "dump_db" /\ ~ret.dir /\ ret.reverse
     /\ ~github /\ out.kind # "dir") =>
        /\ EmitsExactly(ret.rows, dump_selected(ret.input_samples, ret.status))
        /\ \A i, j \in 1..Len(ret.rows) :
              i < j => LineCount(ret.rows[i].contents) <= LineCount(ret.rows[j].contents)

\* C10, as claimed: an export to a destination that does not exist yet emits
\* every row of the source table that passes the filter exactly once and no
\* other row: the PreprocessedFiles rows of the given status, or every
\* ContentFiles row.
C10_AsClaimed ==
    (/\ ret.op = "dump_db"
     /\ ret.result = None \/ (ret.result = OperationalError /\ out.kind = "absent")) =>
        EmitsExactly(ret.rows, dump_selected(ret.input_samples, ret.status))


\* C11, as claimed: a directory-mode export to a destination directory that
\* exists and lists a file fails with a user error and leaves the directory as
\* it was, and a directory-mode export to an absent or empty destination is
\* accepted.
C11_AsClaimed ==
    [][(ret'.op = "dump_db" /\ ret'.dir) =>
          /\ (out.kind = "dir" /\ out.files # {}) =>
                (ret'.result = UserError /\ out' = out)
          /\ (out.kind = "absent" \/ (out.kind = "dir" /\ out.files = {})) =>
                ret'.result = None]_vars

\* Two rows of different ids have the same file name in a directory export.
Collides(rows) ==
    \E i, j \in DOMAIN rows :
        /\ rows[i].id # rows[j].id
        /\ kid_to_path(rows[i].id) = kid_to_path(rows[j].id)

\* C12, as claimed: a directory-mode export that selects two records of
\* different ids and equal sanitized file names fails with an error, and no
\* file of one record is overwritten by the other.
C12_AsClaimed ==
    (/\ ret.op = "dump_db" /\ ret.dir
     /\ Collides(dump_selected(ret.input_samples, ret.status))) =>
        /\ ret.result \in Exceptions
        /\ ~Collides(ret.rows)

-----------------------------------------------------------------------------
(* Claims about maintenance and counting, under SpecMaint *)

\* C13: remove_bad_preprocessed replaces the contents of exactly the
\* PreprocessedFiles rows of status 1 or 2 by '[DELETED]' and leaves the rest as
\* it was: the contents of the rows of any other status, every id and status,
\* the rows there are, ContentFiles and Meta; and a second run would change
\* nothing.
C13_TombstonesExactlyBadRows ==
    [][ret'.op = "remove_bad_preprocessed" =>
          /\ Len(PreprocessedFiles') = Len(PreprocessedFiles)
          /\ \A i \in DOMAIN PreprocessedFiles :
                /\ PreprocessedFiles'[i].id = PreprocessedFiles[i].id
                /\ PreprocessedFiles'[i].status = PreprocessedFiles[i].status
                /\ PreprocessedFiles'[i].contents =
                      IF PreprocessedFiles[i].status \in {1, 2} THEN Tombstone
                      ELSE PreprocessedFiles[i].contents
          /\ UNCHANGED <<ContentFiles, Meta>>
          /\ remove_bad_rows(PreprocessedFiles') = PreprocessedFiles']_vars

\* After remove_bad_preprocessed a row of status 2 holds the tombstone and a
\* row of status 3 still holds its two lines.
C13_Witness ==
    /\ ret.op = "remove_bad_preprocessed"
    /\ \E i, j \in DOMAIN PreprocessedFiles :
          /\ PreprocessedFiles[i].status = 2
          /\ PreprocessedFiles[i].contents = Tombstone
          /\ PreprocessedFiles[j].status = 3
          /\ PreprocessedFiles[j].contents = <<"x", NewLine, "y">>

\* The newline-delimited segments of a value: its newlines plus one.
Segments(value) == Cardinality({i \in DOMAIN value : value[i] = NewLine}) + 1

RECURSIVE Sum(_)
Sum(numbers) == IF numbers = <<>> THEN 0 ELSE Sum(Tail(numbers)) + Head(numbers)

\* C14: lc returns the sum over the scanned rows of the number of newlines of
\* the value plus one, and cc the sum of the lengths of the values; over the
\* single record 'x\ny' they return 2 and 3.
C14_CountsAreSums ==
    /\ ret.op = "lc" =>
          LET values == Contents(ScannedRows(ret.table, ret.condition))
          IN  /\ ret.result = Sum([i \in DOMAIN values |-> Segments(values[i])])
              /\ values = <<(<<"x", NewLine, "y">>)>> => ret.result = 2
    /\ ret.op = "cc" =>
          LET values == Contents(ScannedRows(ret.table, ret.condition))
          IN  /\ ret.result = Sum([i \in DOMAIN values |-> Len(values[i])])
              /\ values = <<(<<"x", NewLine, "y">>)>> => ret.result = 3

\* lc over the two PreprocessedFiles rows 'x' and 'x\ny' returned 3.
C14_Witness ==
    /\ ret.op = "lc" /\ ret.table = "PreprocessedFiles" /\ ret.condition = NoCondition
    /\ {PreprocessedFiles[i].contents : i \in DOMAIN PreprocessedFiles}
          = {<<"x">>, <<"x", NewLine, "y">>}
    /\ ret.result = 3

\* C15: remove_preprocessed deletes every PreprocessedFiles row and the
\* 'preprocessed_checksum' Meta entry, and leaves ContentFiles and the row of
\* every other Meta key as they were.
C15_RemovePreprocessedFrame ==
    [][ret'.op = "remove_preprocessed" =>
          /\ PreprocessedFiles' = <<>>
          /\ MetaRowsOf(Meta', ChecksumKey) = <<>>
          /\ ContentFiles' = ContentFiles
          /\ \A key \in MetaKeys \ {ChecksumKey} :
                MetaRowsOf(Meta', key) = MetaRowsOf(Meta, key)]_vars

\* After remove_preprocessed the store holds a Content Record and the rows of
\* 'version' and 'k', and no preprocessed row or checksum entry.
C15_Witness ==
    /\ ret.op = "remove_preprocessed"
    /\ ContentFiles # <<>>
    /\ PreprocessedFiles = <<>>
    /\ MetaRowsOf(Meta, "version") # <<>> /\ MetaRowsOf(Meta, "k") # <<>>
    /\ MetaRowsOf(Meta, ChecksumKey) = <<>>

-----------------------------------------------------------------------------
(* Claims about Model identity, equality and training, under SpecModel *)

\* The configurations differ, and in the epoch count only.
DifferOnlyInEpochs(c1, c2) ==
    /\ c1.num_epochs # c2.num_epochs
    /\ [c1 EXCEPT !.num_epochs = c2.num_epochs] = c2

\* The configurations differ in the neuron type, the layer count or the
\* corpus sequence length.
DifferInIdentityField(c1, c2) ==
    \/ c1.neuron_type # c2.neuron_type
    \/ c1.num_layers # c2.num_layers
    \/ c1.sequence_length # c2.sequence_length

\* C16: two models whose configurations differ only in the epoch count have
\* equal hashes.
C16_EpochsNotInHash ==
    \A a, b \in DOMAIN models :
        DifferOnlyInEpochs(models[a].config, models[b].config) =>
            models[a].hash = models[b].hash

\* m1 and m2 are GRU models of one layer and sequence length 5, of 1 and of 2
\* epochs.
C16_Witness ==
    /\ DOMAIN models = ModelNames
    /\ models["m1"].config = [neuron_type |-> "GRU", num_layers |-> 1,
                              sequence_length |-> 5, num_epochs |-> 1]
    /\ models["m2"].config = [models["m1"].config EXCEPT !.num_epochs = 2]

\* C17: two models whose configurations differ in the neuron type, the layer
\* count or the corpus sequence length have different hashes and compare
\* unequal.
C17_IdentityFieldsInHash ==
    \A a, b \in DOMAIN models :
        DifferInIdentityField(models[a].config, models[b].config) =>
            /\ models[a].hash # models[b].hash
            /\ ~ModelEq(models[a], models[b])

\* m1 and m2 differ in the layer count only.
C17_Witness ==
    /\ DOMAIN models = ModelNames
    /\ models["m1"].config.num_layers = 1
    /\ models["m2"].config = [models["m1"].config EXCEPT !.num_layers = 2]

\* Train() has completed on an instance of this configuration.
TrainedConfig(config) ==
    \E a \in DOMAIN models : models[a].trained /\ models[a].config = config

\* C18: once Train() has completed for a configuration, every instance of the
\* same configuration reports is_trained, and a further Train() of that
\* configuration leaves the checkpoints and META of every cache entry as they
\* were.
C18_TrainedOnceForAll ==
    [][/\ \A b \in DOMAIN models' :
             (\E a \in DOMAIN models' : /\ models'[a].trained
                                        /\ models'[a].config = models'[b].config)
                => is_trained(cache', models'[b])
       /\ (ret'.op = "Train" /\ TrainedConfig(models[ret'.name].config))
             => cache' = cache]_vars

\* m1 was trained for 2 epochs, m2 was made of the same configuration after
\* that and Train() was called on it too: the entry holds checkpoints 1 and 2.
C18_Witness ==
    /\ ret.op = "Train" /\ ret.name = "m2"
    /\ DOMAIN models = ModelNames
    /\ models["m1"].trained /\ models["m2"].trained
    /\ models["m1"].config = models["m2"].config
    /\ models["m1"].config.num_epochs = 2
    /\ cache[models["m2"].hash].checkpoints = {1, 2}

-----------------------------------------------------------------------------
(* Claims about the checksum's scan order (under SpecChange) and the ids it *)
(* tells apart (under SpecIds)                                             *)

\* The tables that hold the rows of `rows` in another insertion order.
OrdersOf(rows) ==
    {t \in [DOMAIN rows -> Range(rows)] : Range(t) = Range(rows)}

C20_AsClaimed ==
    (/\ ret.op = "is_modified"
     /\ scanByIndex
     /\ commit.on /\ ~commit.meta
     /\ ContentFiles # <<>>
     /\ {ContentFiles[i].id : i \in DOMAIN ContentFiles} # commit.ids) =>
        Truthy(ret.result)

-----------------------------------------------------------------------------
(* Claims about the single-file format (SpecExport), interrupted Meta        *)
(* updates (SpecCrash) and remove_preprocessed before is_modified            *)
(* (SpecChange)                                                              *)

\* What the claim has a record's block hold, piece by piece.
IdMarker(id) == <<"/* ID: ">> \o id \o <<" */", NewLine, NewLine>>
EofMarker == <<NewLine, "/* EOF */", NewLine, NewLine>>
BlankLine == <<NewLine, NewLine>>

C22_MetaUpdateAllOrNothing ==
    [][/\ \A key \in MetaKeys :
             MetaRowsOf(Meta', key) # MetaRowsOf(Meta, key) =>
                /\ txn.pc = "inserted" /\ txn.key = key /\ txn'.pc = "idle"
                /\ ret'.result = None /\ ret'.op = txn.op
                /\ MetaRowsOf(Meta', key) = <<[key |-> key, value |-> txn.value]>>
       /\ (ret' # ret /\ (ret'.op = "stopped" \/ ret'.result = BindError)) =>
             Meta' = Meta]_vars

\* set_meta('version', '3') was stopped after its DELETE, and the committed
\* row of 'version' still holds '2'.
C22_Witness ==
    /\ ret.op = "stopped" /\ ret.of = "set_meta" /\ ret.at = "deleted"
    /\ ret.key = "version" /\ ret.value = <<"3">>
    /\ MetaRowsOf(Meta, "version") = <<[key |-> "version", value |-> <<"2">>]>>
    /\ txn.pc = "idle"

\* C23: an is_modified that follows remove_preprocessed on a store whose
\* ContentFiles table holds a row returns a truthy value, whatever the
\* checksum entry held before remove_preprocessed.
C23_ChangedAfterRemovePreprocessed ==
    [][(/\ ret.op = "remove_preprocessed"
        /\ ret'.op = "is_modified"
        /\ ContentFiles # <<>>) => Truthy(ret'.result)]_vars

\* A digest returned by is_modified was committed, remove_preprocessed took
\* the entry away, and is_modified over the same two Content Records returned
\* a digest again.
C23_Witness ==
    /\ ret.op = "is_modified" /\ Truthy(ret.result)
    /\ commit.on /\ commit.content = "none" /\ commit.meta
    /\ MetaRowsOf(Meta, ChecksumKey) = <<>>
    /\ Len(ContentFiles) = 2

=============================================================================
